---- MODULE Spec2Model ----
(***************************************************************************)
(* Water-Sim: the GPGPU height-field simulation (GPGPUWater, its four      *)
(* fragment shaders) and the engine that drives it (WaterEngine: pointer   *)
(* handlers, sphere physics, the animation frame), and the React component *)
(* WebGLWater that constructs, configures and disposes the engine.         *)
(*                                                                         *)
(* Numbers.  The render targets are FloatType textures and the shaders     *)
(* compute in GLSL floats.  A shader float is modelled as an integer count *)
(* of 2^-FracBits units that carries at most MantBits significant bits:    *)
(* every shader operation rounds its exact result to the nearest such      *)
(* value (ties to even), as a binary floating-point format does.  The      *)
(* engine's JavaScript numbers (doubles) are modelled as exact integers on *)
(* decimal lattices: lengths and UVs in 10^-4, strengths in 10^-5, time in *)
(* milliseconds; they are rounded to a shader float when uploaded.         *)
(***************************************************************************)
EXTENDS Integers, Sequences, FiniteSets, TLC

VARIABLES
    waterSim,                   \* WaterEngine.waterSim : GPGPUWater
    sphere,                     \* sphere.position
    oldSpherePos,
    sphereVelocity,
    isDraggingSphere,
    controlsEnabled,            \* controls.enabled (the orbit camera)
    lastWaterInteractionPoint,  \* a UV, or Null
    isPaused,
    gravityEnabled,
    windStrength,
    interactionStrength,
    waveSpeed,
    accumulatedWaveTime,
    animFrameId,                \* id of the latest requestAnimationFrame
    pendingFrames,              \* ids of the frame callbacks requested and not yet run or cancelled
    disposed,                   \* dispose() has run: listeners removed, resources freed
    texture,                    \* the texture the latest frame handed to caustics and materials
    last,                       \* the latest handler run, with the UVs it worked on
    oldPosWrites,               \* where in the latest handler's pass sequence oldSpherePos was copied
    frameSpherePos,             \* sphere.position as the tick before the latest left it, and the latest
    nFrames,                    \* ticks of animate so far
    nEvents,                    \* pointer events and setter calls so far
    component                   \* the React component WebGLWater: its props, refs, engines and effects

vars == <<waterSim, sphere, oldSpherePos, sphereVelocity, isDraggingSphere, controlsEnabled,
          lastWaterInteractionPoint, isPaused, gravityEnabled, windStrength,
          interactionStrength, waveSpeed, accumulatedWaveTime, animFrameId, pendingFrames,
          disposed, texture, last, oldPosWrites, frameSpherePos, nFrames, nEvents,
          component>>

\* ------------------------------------------------------------------ bounds
\* Grid resolution (the engine builds GPGPUWater(renderer, 128)).
N == 4
\* Fraction bits of the shader-float lattice.
FracBits == 12
\* Significant bits a shader float keeps (24 in a 32-bit float).
MantBits == 8
\* Passes issued through the GPGPUWater API in SpecGPGPU.
MaxCalls == 3
\* step() calls on a disturbed grid in SpecStep.
MaxSteps == 12
\* Ticks of animate after the constructor's, and pointer/setter events, in Spec.
MaxFrames == 2
MaxEvents == 2
\* Renders of WebGLWater after the first, and calls through its API, in SpecWebGLWater.
MaxRenders == 2
MaxApiCalls == 1

\* ------------------------------------------------- the engine's numbers
\* Lattice units per 1.0: lengths and UVs, strengths, damping and wave speed.
LenScale == 10 ^ 4
StrScale == 10 ^ 5
MilliScale == 10 ^ 3
\* No UV: the null of lastWaterInteractionPoint
Null == [null |-> TRUE]

\* --------------------------------------------------------- shader floats
One == 2 ^ FracBits
Half == One \div 2
Quarter == One \div 4

Abs(x) == IF x < 0 THEN -x ELSE x
Sign(x) == IF x < 0 THEN -1 ELSE 1
Min(a, b) == IF a < b THEN a ELSE b
Max(a, b) == IF a > b THEN a ELSE b

RECURSIVE QuantumExp(_, _)
\* The exponent k of the spacing 2^k of the floats around a magnitude whose
\* integer part is q: the least k with q < 2^(MantBits + k).
QuantumExp(q, k) == IF q < 2 ^ (MantBits + k) THEN k ELSE QuantumExp(q, k + 1)

\* a / b (a >= 0, b > 0) rounded to the nearest integer, ties to even.
RoundNearestEven(a, b) ==
    LET q == a \div b
        r == a % b
    IN  IF 2 * r < b THEN q
        ELSE IF 2 * r > b THEN q + 1
        ELSE IF q % 2 = 0 THEN q ELSE q + 1

\* The shader float nearest to the rational n / d (d > 0), in units.
RoundQ(n, d) ==
    LET a == Abs(n)
        k == QuantumExp(a \div d, 0)
    IN  Sign(n) * (2 ^ k) * RoundNearestEven(a, d * (2 ^ k))

Fl(x) == RoundQ(x, 1)
AddF(a, b) == Fl(a + b)
SubF(a, b) == Fl(a - b)
MulF(a, b) == RoundQ(a * b, One)
\* b # 0
DivF(a, b) == IF b < 0 THEN RoundQ((-a) * One, -b) ELSE RoundQ(a * One, b)

RECURSIVE ISqrtIter(_, _, _)
ISqrtIter(n, lo, hi) ==
    IF hi - lo <= 1 THEN lo
    ELSE LET mid == (lo + hi) \div 2
         IN  IF mid * mid <= n THEN ISqrtIter(n, mid, hi) ELSE ISqrtIter(n, lo, mid)

\* floor(sqrt(n)), n < 2^31
ISqrt(n) == ISqrtIter(n, 0, 46341)

\* GLSL length(vec2(x, y))
Length2(x, y) == Fl(ISqrt(x * x + y * y))
\* GLSL length(vec3(x, y, z))
Length3(x, y, z) == Fl(ISqrt(x * x + y * y + z * z))

Sq(x) == MulF(x, x)

\* cos(e * PI) for e in [0, 1/2], given e2 = e * e, by Bhaskara's rational
\* approximation cos(y) ~ (PI^2 - 4 y^2) / (PI^2 + y^2) on [-PI/2, PI/2];
\* exact at e = 0 and 1/2.
CosPiLow(e2) == DivF(SubF(One, MulF(4 * One, e2)), AddF(One, e2))

\* cos(d * PI) for d in [0, 1]: reflected on [1/2, 1]
CosPi(d) == IF d <= Half THEN CosPiLow(Sq(d)) ELSE -CosPiLow(Sq(SubF(One, d)))

\* exp(-v) for 0 <= v < 3: 1 / (1 + v + v^2 / 2)
ExpNegSmall(v) == DivF(One, AddF(AddF(One, v), MulF(Sq(v), Half)))

\* pow(x, 6.0) given x2 = x * x
Cube(x2) == MulF(Sq(x2), x2)

\* exp(-pow(x, 6.0)) for x >= 0.  exp(-u) is computed as exp(-u/4)^4; for
\* x >= 1.5 the result (< 2e-5) is below the lattice unit and rounds to 0.
ExpNegPow6(x) ==
    IF x >= (3 * One) \div 2 THEN 0
    ELSE Sq(Sq(ExpNegSmall(MulF(Cube(Sq(x)), Quarter))))

\* ------------------------------------------------------------------ grid
Cells == (0 .. N - 1) \X (0 .. N - 1)
Texel == [r |-> 0, g |-> 0, b |-> 0, a |-> 0]
\* A freshly allocated render target.
RestGrid == [c \in Cells |-> Texel]

\* v_uv of the fragment that shades texel i along one axis: (i + 1/2) / N
CellUV(i) == RoundQ((2 * i + 1) * One, 2 * N)
\* u_delta = 1 / size
Delta == RoundQ(One, N)

ClampIdx(i) == IF i < 0 THEN 0 ELSE IF i > N - 1 THEN N - 1 ELSE i
\* texture2D(u_texture, v_uv + (di, dj) * u_delta): the neighbouring texel,
\* clamped to the edge (the render targets keep the default wrap mode).
Texture2D(G, c, di, dj) == G[<<ClampIdx(c[1] + di), ClampIdx(c[2] + dj)>>]

\* --------------------------------------------------------------- shaders
Vec2(x, y) == [x |-> x, y |-> y]
Vec3(x, y, z) == [x |-> x, y |-> y, z |-> z]

\* dropShaderFs with info.g += drop * u_strength
DropShaderIntoVelocity(G, c, u_center, u_radius, u_strength) ==
    LET info == Texture2D(G, c, 0, 0)
        len == Length2(SubF(u_center.x, CellUV(c[1])), SubF(u_center.y, CellUV(c[2])))
        d == Max(0, SubF(One, DivF(len, u_radius)))
        drop == SubF(Half, MulF(CosPi(d), Half))
    IN  [info EXCEPT !.g = AddF(info.g, MulF(drop, u_strength))]

\* dropShaderFs: main() for the fragment of cell c, sampling grid G
DropShader(G, c, u_center, u_radius, u_strength) ==
    LET info == Texture2D(G, c, 0, 0)
        len == Length2(SubF(u_center.x, CellUV(c[1])), SubF(u_center.y, CellUV(c[2])))
        d == Max(0, SubF(One, DivF(len, u_radius)))
        drop == SubF(Half, MulF(CosPi(d), Half))
    IN  [info EXCEPT !.r = AddF(info.r, MulF(drop, u_strength))]

\* updateShaderFs with info.g += u_damping for info.g *= u_damping
IntegrateAddingDamping(info, g, u_damping) ==
    [info EXCEPT !.g = AddF(g, u_damping), !.r = AddF(info.r, AddF(g, u_damping))]

\* updateShaderFs with info.r += info.g ahead of info.g *= u_damping
IntegrateBeforeDamping(info, g, u_damping) ==
    [info EXCEPT !.g = MulF(g, u_damping), !.r = AddF(info.r, g)]

\* updateShaderFs: info.g *= u_damping; info.r += info.g, where g is the
\* velocity already pulled toward the average
Integrate(info, g, u_damping) ==
    [info EXCEPT !.g = MulF(g, u_damping), !.r = AddF(info.r, MulF(g, u_damping))]

\* updateShaderFs with the sum of the four neighbours for their average
\* (without * 0.25)
UpdateShaderSummingNeighbours(G, c, u_damping) ==
    LET info == Texture2D(G, c, 0, 0)
        sum == AddF(AddF(AddF(Texture2D(G, c, -1, 0).r, Texture2D(G, c, 1, 0).r),
                         Texture2D(G, c, 0, -1).r),
                    Texture2D(G, c, 0, 1).r)
    IN  Integrate(info, AddF(info.g, MulF(SubF(sum, info.r), 2 * One)), u_damping)

\* updateShaderFs: main()
UpdateShader(G, c, u_damping) ==
    LET info == Texture2D(G, c, 0, 0)
        average == MulF(AddF(AddF(AddF(Texture2D(G, c, -1, 0).r,
                                       Texture2D(G, c, 1, 0).r),
                                  Texture2D(G, c, 0, -1).r),
                             Texture2D(G, c, 0, 1).r), Quarter)
    IN  Integrate(info, AddF(info.g, MulF(SubF(average, info.r), 2 * One)), u_damping)

\* GLSL cross(a, b)
Cross(a, b) ==
    Vec3(SubF(MulF(a.y, b.z), MulF(a.z, b.y)),
         SubF(MulF(a.z, b.x), MulF(a.x, b.z)),
         SubF(MulF(a.x, b.y), MulF(a.y, b.x)))

\* v / len
Scaled(v, len) == Vec3(DivF(v.x, len), DivF(v.y, len), DivF(v.z, len))

\* GLSL normalize(v), v # 0
Normalize(v) == Scaled(v, Length3(v.x, v.y, v.z))

\* normalShaderFs: info.ba = normal.xz
WithNormal(info, n) == [info EXCEPT !.b = n.x, !.a = n.z]

\* normalShaderFs: main()
NormalShader(G, c) ==
    LET info == Texture2D(G, c, 0, 0)
        dx == Vec3(Delta, SubF(Texture2D(G, c, 1, 0).r, info.r), 0)
        dy == Vec3(0, SubF(Texture2D(G, c, 0, 1).r, info.r), Delta)
    IN  WithNormal(info, Normalize(Cross(dy, dx)))

\* volumeInSphere: (ymax - ymin) * 0.1 with
\* ymax = min(max(0.0, center.y + dy), ymin + 2.0 * dy)
VolumeAbove(y, dy, ymin) ==
    MulF(SubF(Min(Max(0, AddF(y, dy)), AddF(ymin, MulF(2 * One, dy))), ymin),
         RoundQ(One, 10))

\* volumeInSphere: ymin = min(0.0, center.y - dy)
VolumeAt(y, dy) == VolumeAbove(y, dy, Min(0, SubF(y, dy)))

\* sphereShaderFs: volumeInSphere(center) at the fragment of cell c
VolumeInSphere(c, center, u_radius) ==
    LET wx == SubF(MulF(CellUV(c[1]), 2 * One), One)
        wz == SubF(MulF(CellUV(c[2]), 2 * One), One)
        t == DivF(Length2(SubF(wx, center.x), SubF(wz, center.z)), u_radius)
    IN  VolumeAt(center.y, ExpNegPow6(MulF(t, (3 * One) \div 2)))

\* sphereShaderFs: main()
SphereShader(G, c, u_oldCenter, u_newCenter, u_radius) ==
    LET info == Texture2D(G, c, 0, 0)
        r1 == AddF(info.r, VolumeInSphere(c, u_oldCenter, u_radius))
    IN  [info EXCEPT !.r = SubF(r1, VolumeInSphere(c, u_newCenter, u_radius))]

\* ------------------------------------------------------------ GPGPUWater
\* Buffer identities: the two render targets allocated by the constructor.
Buffers == {1, 2}
NullTexture == 0

\* A uniform's JavaScript value as the shader receives it: a length or UV,
\* a strength, a damping factor.
Upload(x) == RoundQ(x * One, LenScale)
UploadStr(s) == RoundQ(s * One, StrScale)
UploadMilli(m) == RoundQ(m * One, MilliScale)
UploadVec2(v) == Vec2(Upload(v.x), Upload(v.y))
UploadVec3(v) == Vec3(Upload(v.x), Upload(v.y), Upload(v.z))

\* u_damping as constructed: 0.995
DefaultDamping == 995

\* new GPGPUWater(renderer, size)
NewGPGPUWater ==
    [ read |-> 1, write |-> 2,
      buf |-> [b \in Buffers |-> RestGrid],
      material |-> "update",
      dropMat |-> [u_texture |-> NullTexture, u_center |-> Vec2(0, 0),
                   u_radius |-> 0, u_strength |-> 0],
      updateMat |-> [u_texture |-> NullTexture, u_damping |-> DefaultDamping],
      normalMat |-> [u_texture |-> NullTexture],
      sphereMat |-> [u_texture |-> NullTexture, u_oldCenter |-> Vec3(0, 0, 0),
                     u_newCenter |-> Vec3(0, 0, 0), u_radius |-> 0],
      log |-> << >> ]

\* The grid a sampler bound to texture t reads (an unbound sampler reads zeros).
Sampled(w, t) == IF t = NullTexture THEN RestGrid ELSE w.buf[t]

\* The uniforms of the material on the mesh
Uniforms(w) ==
    CASE w.material = "drop" -> w.dropMat
      [] w.material = "update" -> w.updateMat
      [] w.material = "normal" -> w.normalMat
      [] w.material = "sphere" -> w.sphereMat

\* The fragment shader of the material on the mesh, run for cell c
Fragment(w, c) ==
    LET G == Sampled(w, Uniforms(w).u_texture)
    IN  CASE w.material = "drop" ->
               DropShader(G, c, UploadVec2(w.dropMat.u_center), Upload(w.dropMat.u_radius),
                          UploadStr(w.dropMat.u_strength))
          [] w.material = "update" -> UpdateShader(G, c, UploadMilli(w.updateMat.u_damping))
          [] w.material = "normal" -> NormalShader(G, c)
          [] w.material = "sphere" ->
               SphereShader(G, c, UploadVec3(w.sphereMat.u_oldCenter),
                            UploadVec3(w.sphereMat.u_newCenter),
                            Upload(w.sphereMat.u_radius))

\* A rendered texture, held as the table of its texels: the draw is complete
\* before anything samples it.
Drawn(G) == CHOOSE g \in {G} : g = g

\* render() without targets.swap()
RenderWithoutSwap(w) ==
    [w EXCEPT !.buf[w.write] = Drawn([c \in Cells |-> Fragment(w, c)]),
              !.log = Append(@, [pass |-> w.material, uniforms |-> Uniforms(w),
                                 dst |-> w.write, read0 |-> w.read,
                                 write0 |-> w.write])]

\* GPGPUWater.render(): draw into targets.write, then targets.swap().
\* log records the draw: the material and its uniforms (with the texture it
\* samples), the target drawn into, and targets.read / targets.write as they
\* were when the pass began.
Render(w) ==
    [w EXCEPT !.buf[w.write] = Drawn([c \in Cells |-> Fragment(w, c)]),
              !.read = w.write,
              !.write = w.read,
              !.log = Append(@, [pass |-> w.material, uniforms |-> Uniforms(w),
                                 dst |-> w.write, read0 |-> w.read,
                                 write0 |-> w.write])]

\* GPGPUWater.addDrop(x, y, radius, strength)
AddDrop(w, x, y, radius, strength) ==
    Render([w EXCEPT !.material = "drop",
                     !.dropMat = [u_texture |-> w.read, u_center |-> Vec2(x, y),
                                  u_radius |-> radius, u_strength |-> strength]])

\* GPGPUWater.moveSphere(oldCenter, newCenter, radius)
MoveSphere(w, oldCenter, newCenter, radius) ==
    Render([w EXCEPT !.material = "sphere",
                     !.sphereMat = [u_texture |-> w.read, u_oldCenter |-> oldCenter,
                                    u_newCenter |-> newCenter, u_radius |-> radius]])

\* GPGPUWater.step()
Step(w) ==
    Render([w EXCEPT !.material = "update", !.updateMat.u_texture = w.read])

\* GPGPUWater.setDamping(damping)
SetDamping(w, damping) == [w EXCEPT !.updateMat.u_damping = damping]

\* GPGPUWater.updateNormals()
UpdateNormals(w) ==
    Render([w EXCEPT !.material = "normal", !.normalMat.u_texture = w.read])

\* GPGPUWater.getTexture()
GetTexture(w) == w.read

\* The grid behind getTexture()
Grid == waterSim.buf[GetTexture(waterSim)]

\* The passes of the latest handler, and a fresh record of them
Log == waterSim.log
NewLog(w) == [w EXCEPT !.log = << >>]

\* ----------------------------------------------------------- WaterEngine
\* Field initialisers and literals of WaterEngine, on the lattices above.
sphereRadius == 2500
poolSize == 20000
poolHeight == 10000
GRAVITY == -120
BUOYANCY_MAX == 240
DRAG_AIR == 9950
DRAG_WATER == 9000
\* 0.001: the least sphere motion that is displaced into the water
MoveEpsilon == 10
\* 0.015: the spacing of a drag trail; 0.02 and 0.03: the trail and click radii
TrailSpacing == 150
TrailRadius == 200
ClickRadius == 300
\* 0.05 and 0.08: the radii of the two wind drops
WindRadius1 == 500
WindRadius2 == 800
\* 0.5: the ceiling of the clamp of a dragged sphere
DragCeiling == 5000

\* n / d (d > 0) rounded to the nearest integer, halves away from zero: a
\* JavaScript product or quotient brought back to the lattice.
RoundDiv(n, d) == Sign(n) * ((2 * Abs(n) + d) \div (2 * d))

\* Math.sin(x) for x in milliradians, in length units: Bhaskara's
\* approximation 16 y (PI - y) / (5 PI^2 - 4 y (PI - y)) on [0, PI].
SinM(x) ==
    LET pi == 3142
        y == x % (2 * pi)
        h == IF y <= pi THEN y ELSE y - pi
        p == h * (pi - h)
        b == ((p \div 16) * LenScale) \div ((5 * pi * pi - 4 * p) \div 256)
    IN  IF y <= pi THEN b ELSE -b
\* Math.cos(x)
CosM(x) == SinM(x + 1571)

\* THREE.Vector3.distanceTo(b) > eps, decided on the squares
FartherThan(a, b, eps) ==
    (a.x - b.x) * (a.x - b.x) + (a.y - b.y) * (a.y - b.y) + (a.z - b.z) * (a.z - b.z)
        > eps * eps

ClampTo(x, lo, hi) == Max(lo, Min(hi, x))

\* animate, "Sphere physics": one integrator step of the free sphere
Physics(pos, vel) ==
    LET r == sphereRadius
        y == pos.y
        vy1 == vel.y + GRAVITY
        submergedRatio ==
            IF y > r THEN 0
            ELSE IF y < -r THEN LenScale
            ELSE ClampTo(RoundDiv((r - y) * LenScale, 2 * r), 0, LenScale)
        vy2 == IF submergedRatio > 0
               THEN vy1 + RoundDiv(BUOYANCY_MAX * submergedRatio, LenScale)
               ELSE vy1
        drag == DRAG_AIR + RoundDiv((DRAG_WATER - DRAG_AIR) * submergedRatio, LenScale)
        v == Vec3(RoundDiv(vel.x * drag, LenScale), RoundDiv(vy2 * drag, LenScale),
                  RoundDiv(vel.z * drag, LenScale))
        p == Vec3(pos.x + v.x, pos.y + v.y, pos.z + v.z)
        floorY == -poolHeight + sphereRadius
    IN  IF p.y < floorY
        THEN [pos |-> [p EXCEPT !.y = floorY],
              vel |-> IF v.y < 0 THEN [v EXCEPT !.y = RoundDiv(v.y * (-3), 10)] ELSE v]
        ELSE [pos |-> p, vel |-> v]

\* animate with the "else if (this.isDraggingSphere)" branch left out
SpherePhysicsKeepingVelocity(pos, vel, dragging, gravity) ==
    IF ~dragging /\ gravity THEN Physics(pos, vel) ELSE [pos |-> pos, vel |-> vel]

\* animate, the branch on isDraggingSphere and gravityEnabled
SpherePhysics(pos, vel, dragging, gravity) ==
    IF ~dragging /\ gravity THEN Physics(pos, vel)
    ELSE IF dragging THEN [pos |-> pos, vel |-> Vec3(0, 0, 0)]
    ELSE [pos |-> pos, vel |-> vel]

\* "Wind" with the second drop of the same sign as the first
WindSameSign(w, T, wind) ==
    LET w1 == AddDrop(w, SinM((3 * T) \div 10 + 2000) \div 2 + LenScale \div 2,
                         CosM((5 * T) \div 10 + 1000) \div 2 + LenScale \div 2,
                      WindRadius1, wind)
    IN  AddDrop(w1, SinM((2 * T) \div 10 - 1000) \div 2 + LenScale \div 2,
                    CosM((4 * T) \div 10 - 3000) \div 2 + LenScale \div 2,
                WindRadius2, RoundDiv(wind * 7, 10))

\* animate, "Wind": the two ambient drops at wave time T (milliseconds)
Wind(w, T, wind) ==
    LET w1 == AddDrop(w, SinM((3 * T) \div 10 + 2000) \div 2 + LenScale \div 2,
                         CosM((5 * T) \div 10 + 1000) \div 2 + LenScale \div 2,
                      WindRadius1, wind)
    IN  AddDrop(w1, SinM((2 * T) \div 10 - 1000) \div 2 + LenScale \div 2,
                    CosM((4 * T) \div 10 - 3000) \div 2 + LenScale \div 2,
                WindRadius2, RoundDiv((-wind) * 7, 10))

\* animate, "Sphere Interaction", the sphere moved: w1 is the water after
\* moveSphere; oldSpherePos.copy(sphere.position).  writes: the number of
\* passes of the frame that preceded each copy into oldSpherePos.
Displaced(w1, pos) == [waterSim |-> w1, oldSpherePos |-> pos, writes |-> <<Len(w1.log)>>]

\* "Sphere Interaction" without oldSpherePos.copy(sphere.position)
SphereInteractionWithoutCopy(w, old, pos) ==
    IF FartherThan(old, pos, MoveEpsilon)
    THEN [waterSim |-> MoveSphere(w, Vec3(old.x, old.y, -old.z),
                                  Vec3(pos.x, pos.y, -pos.z), sphereRadius),
          oldSpherePos |-> old, writes |-> << >>]
    ELSE [waterSim |-> w, oldSpherePos |-> old, writes |-> << >>]

\* "Sphere Interaction" with the copy after the if, not inside it
SphereInteractionAlwaysCopying(w, old, pos) ==
    IF FartherThan(old, pos, MoveEpsilon)
    THEN Displaced(MoveSphere(w, Vec3(old.x, old.y, -old.z), Vec3(pos.x, pos.y, -pos.z),
                              sphereRadius), pos)
    ELSE [waterSim |-> w, oldSpherePos |-> pos, writes |-> <<Len(w.log)>>]

\* "Sphere Interaction" without the test of the distance
SphereInteractionUnguarded(w, old, pos) ==
    Displaced(MoveSphere(w, Vec3(old.x, old.y, -old.z), Vec3(pos.x, pos.y, -pos.z),
                         sphereRadius), pos)

\* "Sphere Interaction" with the test > 0.01 for > 0.001
SphereInteractionCoarse(w, old, pos) ==
    IF FartherThan(old, pos, 10 * MoveEpsilon)
    THEN Displaced(MoveSphere(w, Vec3(old.x, old.y, -old.z), Vec3(pos.x, pos.y, -pos.z),
                              sphereRadius), pos)
    ELSE [waterSim |-> w, oldSpherePos |-> old, writes |-> << >>]

\* animate, "Sphere Interaction": displace the water when the sphere moved,
\* then remember where it is.
SphereInteraction(w, old, pos) ==
    IF FartherThan(old, pos, MoveEpsilon)
    THEN Displaced(MoveSphere(w, Vec3(old.x, old.y, -old.z), Vec3(pos.x, pos.y, -pos.z),
                              sphereRadius), pos)
    ELSE [waterSim |-> w, oldSpherePos |-> old, writes |-> << >>]

\* updateNormals() ahead of step()
NormalsThenStep(w) == Step(UpdateNormals(w))

\* step() twice in the frame
StepTwiceAndNormals(w) == UpdateNormals(Step(Step(w)))

\* animate: waterSim.step(); waterSim.updateNormals()
StepAndNormals(w) == UpdateNormals(Step(w))

\* animate, its end: the texture of the water w4 goes to caustics and materials
Rendered(ph, si, w4, T1) ==
    [sphere |-> ph.pos, sphereVelocity |-> ph.vel, oldSpherePos |-> si.oldSpherePos,
     oldPosWrites |-> si.writes, waterSim |-> w4, accumulatedWaveTime |-> T1,
     texture |-> GetTexture(w4)]

\* animate from "Sphere Interaction" on; si is what the interaction left
Simulate(ph, si, T1) == Rendered(ph, si, StepAndNormals(si.waterSim), T1)

\* animate from "Wind" on, at wave time T1 with the sphere at ph
Disturb(ph, old, w, T1, wind) ==
    Simulate(ph, SphereInteraction(Wind(NewLog(w), T1, wind), old, ph.pos), T1)

\* animate past the isPaused test: the state the frame leaves
Frame(pos, vel, old, w, T, dragging, gravity, wind, speed, delta) ==
    Disturb(SpherePhysics(pos, vel, dragging, gravity), old, w,
            T + RoundDiv(delta * speed, MilliScale), wind)

\* The UV of a point of the water plane: (x / poolSize + 0.5, 0.5 - z / poolSize)
PointUV(point) ==
    Vec2(RoundDiv(point.x * LenScale, poolSize) + LenScale \div 2,
         LenScale \div 2 - RoundDiv(point.z * LenScale, poolSize))

InUnitSquare(uv) == uv.x >= 0 /\ uv.x <= LenScale /\ uv.y >= 0 /\ uv.y <= LenScale

\* THREE.Vector2.distanceTo, squared
Dist2(a, b) == (a.x - b.x) * (a.x - b.x) + (a.y - b.y) * (a.y - b.y)

RECURSIVE CeilQuot(_, _, _)
\* Math.ceil(sqrt(d2) / spacing): the least n >= k with (n * spacing)^2 >= d2
CeilQuot(d2, spacing, k) ==
    IF (k * spacing) * (k * spacing) >= d2 THEN k ELSE CeilQuot(d2, spacing, k + 1)

\* onPointerMove: segments = Math.max(1, Math.ceil(dist / 0.015))
Segments(from, to) == Max(1, CeilQuot(Dist2(from, to), TrailSpacing, 0))

\* onPointerMove: Math.min(interactionStrength, 0.01 + dist * interactionStrength * 8.0)
TrailStrength(from, to, strength) ==
    Min(strength, StrScale \div 100 + RoundDiv(ISqrt(Dist2(from, to)) * strength * 8, LenScale))

\* lerp with t = (i + 1) / segments
LerpFromNext(from, to, i, segments) ==
    Vec2(from.x + RoundDiv((to.x - from.x) * (i + 1), segments),
         from.y + RoundDiv((to.y - from.y) * (i + 1), segments))

\* THREE.Vector2.lerp(to, i / segments) on a clone of from
Lerp(from, to, i, segments) ==
    Vec2(from.x + RoundDiv((to.x - from.x) * i, segments),
         from.y + RoundDiv((to.y - from.y) * i, segments))

RECURSIVE Trail(_, _, _, _, _, _)
\* onPointerMove: the loop, for (i = 0; i < segments; i++) addDrop(lerp, 0.02, strength)
Trail(w, from, to, strength, i, segments) ==
    IF i >= segments THEN w
    ELSE LET uv == Lerp(from, to, i, segments)
         IN  Trail(AddDrop(w, uv.x, uv.y, TrailRadius, strength), from, to, strength,
                   i + 1, segments)

\* onPointerMove injecting at the pointer when no point is remembered
TrailFromNowhere(w, from, uv, strength) ==
    IF from # Null
    THEN Trail(w, from, uv, TrailStrength(from, uv, strength), 0, Segments(from, uv))
    ELSE AddDrop(w, uv.x, uv.y, TrailRadius, strength)

\* onPointerMove: if (this.lastWaterInteractionPoint) { ... the trail ... }
TrailFromLast(w, from, uv, strength) ==
    IF from # Null
    THEN Trail(w, from, uv, TrailStrength(from, uv, strength), 0, Segments(from, uv))
    ELSE w

\* onPointerDown with addDrop(uv.x, uv.y, 0.02, ...), the radius of a trail
ClickWithTrailRadius(w, uv, strength) == AddDrop(w, uv.x, uv.y, TrailRadius, strength)

\* onPointerDown: waterSim.addDrop(uv.x, uv.y, 0.03, this.interactionStrength)
Click(w, uv, strength) == AddDrop(w, uv.x, uv.y, ClickRadius, strength)

\* onPointerMove with the clamp applied to x and z only
DragClampPlanar(point) ==
    LET limit == poolSize \div 2 - sphereRadius
    IN  Vec3(ClampTo(point.x, -limit, limit), point.y, ClampTo(point.z, -limit, limit))

\* onPointerMove: the position of a dragged sphere, clamped to the pool
DragClamp(point) ==
    LET limit == poolSize \div 2 - sphereRadius
    IN  Vec3(ClampTo(point.x, -limit, limit),
             ClampTo(point.y, -poolHeight + sphereRadius, DragCeiling),
             ClampTo(point.z, -limit, limit))

\* ---------------------------------------------------------------- inputs
\* Where the pointer ray meets the water plane: over the centre of the cell
\* (1, 1) (UV (0.375, 0.375)), 0.02 of UV further along u, 0.025 further
\* along v, and beside the pool (UV (1.5, 0.5)).
WaterPoints ==
    {Vec3(-2500, 0, 2500), Vec3(-2100, 0, 2500), Vec3(-2500, 0, 2000), Vec3(20000, 0, 0)}
\* Where the pointer ray meets the drag plane: inside the pool, beyond it,
\* and 0.0008 and 0.0016 above where the first frame leaves the sphere.
DragPoints ==
    {Vec3(0, 2000, 0), Vec3(15000, 9000, -3000), Vec3(-3000, -947, 3000),
     Vec3(-3000, -939, 3000)}
\* clock.getDelta() in milliseconds: a display frame, a long gap
Deltas == {16, 1000}
Dampings == {0, 500}
WindStrengths == {0}
InteractionStrengths == {1000}
WaveSpeeds == {2000}

\* ------------------------------------------------------------ the engine
\* props.sceneApiRef not passed; engineRef.current or sceneApiRef.current null
NoSceneApi == 0
NoEngine == 0

\* WebGLWater before it is rendered: no engine, the parent's refs empty
Unrendered ==
    [phase |-> "unrendered", props |-> Null, engines |-> << >>, engineRef |-> NoEngine,
     current |-> <<NoEngine, NoEngine>>, cleanup |-> Null, pending |-> {},
     renders |-> 0, calls |-> 0]

NoEvent(handler) == [handler |-> handler, from |-> Null, uv |-> Null]

\* The fields as the constructor has them when it calls this.animate()
Constructed ==
    [sphere |-> Vec3(-3000, -1000, 3000), sphereVelocity |-> Vec3(0, 0, 0),
     oldSpherePos |-> Vec3(-3000, -1000, 3000), waterSim |-> NewGPGPUWater,
     accumulatedWaveTime |-> 0, isDraggingSphere |-> FALSE, gravityEnabled |-> TRUE,
     windStrength |-> 50, interactionStrength |-> 3000, waveSpeed |-> 1000]

\* The first frame, run by the constructor itself; the clock starts at 0.
FirstFrame ==
    Frame(Constructed.sphere, Constructed.sphereVelocity, Constructed.oldSpherePos,
          Constructed.waterSim, Constructed.accumulatedWaveTime,
          Constructed.isDraggingSphere, Constructed.gravityEnabled,
          Constructed.windStrength, Constructed.waveSpeed, 0)

\* new WaterEngine(container)
Init ==
    /\ \E f \in {FirstFrame} :
         /\ waterSim = f.waterSim
         /\ sphere = f.sphere
         /\ oldSpherePos = f.oldSpherePos
         /\ sphereVelocity = f.sphereVelocity
         /\ accumulatedWaveTime = f.accumulatedWaveTime
         /\ texture = f.texture
         /\ oldPosWrites = f.oldPosWrites
         /\ frameSpherePos = <<Constructed.sphere, f.sphere>>
    /\ isDraggingSphere = FALSE
    /\ controlsEnabled = TRUE
    /\ lastWaterInteractionPoint = Null
    /\ isPaused = FALSE
    /\ gravityEnabled = TRUE
    /\ windStrength = Constructed.windStrength
    /\ interactionStrength = Constructed.interactionStrength
    /\ waveSpeed = Constructed.waveSpeed
    /\ animFrameId = 1
    /\ pendingFrames = {1}
    /\ disposed = FALSE
    /\ last = NoEvent("animate")
    /\ nFrames = 0
    /\ nEvents = 0
    /\ component = Unrendered

\* animate with "if (this.isPaused) return;" ahead of requestAnimationFrame
AnimateStoppingWhenPaused ==
    /\ nFrames < MaxFrames
    /\ \E id \in pendingFrames, delta \in Deltas :
         IF isPaused
         THEN /\ pendingFrames' = pendingFrames \ {id}
              /\ waterSim' = NewLog(waterSim)
              /\ oldPosWrites' = << >>
              /\ UNCHANGED <<animFrameId, sphere, sphereVelocity, oldSpherePos,
                             accumulatedWaveTime, texture>>
         ELSE /\ animFrameId' = animFrameId + 1
              /\ pendingFrames' = (pendingFrames \ {id}) \cup {animFrameId + 1}
              /\ \E f \in {Frame(sphere, sphereVelocity, oldSpherePos, waterSim,
                                 accumulatedWaveTime, isDraggingSphere, gravityEnabled,
                                 windStrength, waveSpeed, delta)} :
                     /\ waterSim' = f.waterSim
                     /\ sphere' = f.sphere
                     /\ sphereVelocity' = f.sphereVelocity
                     /\ oldSpherePos' = f.oldSpherePos
                     /\ oldPosWrites' = f.oldPosWrites
                     /\ accumulatedWaveTime' = f.accumulatedWaveTime
                     /\ texture' = f.texture
    /\ frameSpherePos' = <<frameSpherePos[2], sphere'>>
    /\ last' = NoEvent("animate")
    /\ nFrames' = nFrames + 1
    /\ UNCHANGED <<isDraggingSphere, controlsEnabled, lastWaterInteractionPoint, isPaused,
                   gravityEnabled, windStrength, interactionStrength, waveSpeed, disposed,
                   nEvents, component>>

\* animate: a frame callback runs
Animate ==
    /\ nFrames < MaxFrames
    /\ \E id \in pendingFrames, delta \in Deltas :
         /\ animFrameId' = animFrameId + 1
         /\ pendingFrames' = (pendingFrames \ {id}) \cup {animFrameId + 1}
         /\ IF isPaused
            THEN /\ waterSim' = NewLog(waterSim)
                 /\ oldPosWrites' = << >>
                 /\ UNCHANGED <<sphere, sphereVelocity, oldSpherePos, accumulatedWaveTime,
                                texture>>
            ELSE \E f \in {Frame(sphere, sphereVelocity, oldSpherePos, waterSim,
                                  accumulatedWaveTime, isDraggingSphere, gravityEnabled,
                                  windStrength, waveSpeed, delta)} :
                     /\ waterSim' = f.waterSim
                     /\ sphere' = f.sphere
                     /\ sphereVelocity' = f.sphereVelocity
                     /\ oldSpherePos' = f.oldSpherePos
                     /\ oldPosWrites' = f.oldPosWrites
                     /\ accumulatedWaveTime' = f.accumulatedWaveTime
                     /\ texture' = f.texture
    /\ frameSpherePos' = <<frameSpherePos[2], sphere'>>
    /\ last' = NoEvent("animate")
    /\ nFrames' = nFrames + 1
    /\ UNCHANGED <<isDraggingSphere, controlsEnabled, lastWaterInteractionPoint, isPaused,
                   gravityEnabled, windStrength, interactionStrength, waveSpeed, disposed,
                   nEvents, component>>

\* A host event is delivered to a listener of a live engine.
Event ==
    /\ ~disposed
    /\ nEvents < MaxEvents
    /\ nEvents' = nEvents + 1
    /\ UNCHANGED <<animFrameId, pendingFrames, disposed, texture, frameSpherePos, nFrames,
                   component>>

\* onPointerDown; hit: the ray meets the sphere; point: where it meets the water plane
OnPointerDown ==
    /\ Event
    /\ \E hit \in BOOLEAN, point \in WaterPoints :
         LET uv == PointUV(point)
         IN  /\ IF hit
                THEN /\ isDraggingSphere' = TRUE
                     /\ controlsEnabled' = FALSE
                     /\ waterSim' = NewLog(waterSim)
                ELSE /\ IF InUnitSquare(uv)
                        THEN /\ controlsEnabled' = FALSE
                             /\ waterSim' = Click(NewLog(waterSim), uv, interactionStrength)
                        ELSE /\ waterSim' = NewLog(waterSim)
                             /\ UNCHANGED controlsEnabled
                     /\ UNCHANGED isDraggingSphere
             /\ last' = [handler |-> "onPointerDown", from |-> Null,
                         uv |-> IF hit THEN Null ELSE uv]
    /\ oldPosWrites' = << >>
    /\ UNCHANGED <<sphere, oldSpherePos, sphereVelocity, lastWaterInteractionPoint, isPaused,
                   gravityEnabled, windStrength, interactionStrength, waveSpeed,
                   accumulatedWaveTime>>

\* onPointerMove; dragPoint: where the ray meets the drag plane
OnPointerMove ==
    /\ Event
    /\ IF isDraggingSphere
       THEN /\ \E dragPoint \in DragPoints : sphere' = DragClamp(dragPoint)
            /\ waterSim' = NewLog(waterSim)
            /\ last' = NoEvent("onPointerMove")
            /\ UNCHANGED lastWaterInteractionPoint
       ELSE /\ \E hit \in BOOLEAN, point \in WaterPoints :
                 LET uv == PointUV(point)
                     from == lastWaterInteractionPoint
                 IN  IF hit
                     THEN /\ lastWaterInteractionPoint' = Null
                          /\ waterSim' = NewLog(waterSim)
                          /\ last' = NoEvent("onPointerMove")
                     ELSE IF ~InUnitSquare(uv)
                     THEN /\ lastWaterInteractionPoint' = Null
                          /\ waterSim' = NewLog(waterSim)
                          /\ last' = [handler |-> "onPointerMove", from |-> from, uv |-> uv]
                     ELSE /\ waterSim' = TrailFromLast(NewLog(waterSim), from, uv,
                                                      interactionStrength)
                          /\ lastWaterInteractionPoint' = uv
                          /\ last' = [handler |-> "onPointerMove", from |-> from, uv |-> uv]
            /\ UNCHANGED sphere
    /\ oldPosWrites' = << >>
    /\ UNCHANGED <<oldSpherePos, sphereVelocity, isDraggingSphere, controlsEnabled, isPaused,
                   gravityEnabled, windStrength, interactionStrength, waveSpeed,
                   accumulatedWaveTime>>

\* onPointerUp
OnPointerUp ==
    /\ Event
    /\ isDraggingSphere' = FALSE
    /\ controlsEnabled' = TRUE
    /\ lastWaterInteractionPoint' = Null
    /\ waterSim' = NewLog(waterSim)
    /\ last' = NoEvent("onPointerUp")
    /\ oldPosWrites' = << >>
    /\ UNCHANGED <<sphere, oldSpherePos, sphereVelocity, isPaused, gravityEnabled,
                   windStrength, interactionStrength, waveSpeed, accumulatedWaveTime>>

\* onPointerLeave
OnPointerLeave ==
    /\ Event
    /\ lastWaterInteractionPoint' = Null
    /\ controlsEnabled' = TRUE
    /\ waterSim' = NewLog(waterSim)
    /\ last' = NoEvent("onPointerLeave")
    /\ oldPosWrites' = << >>
    /\ UNCHANGED <<sphere, oldSpherePos, sphereVelocity, isDraggingSphere, isPaused,
                   gravityEnabled, windStrength, interactionStrength, waveSpeed,
                   accumulatedWaveTime>>

\* A setter: what it leaves alone besides the field it sets
Setter(name) ==
    /\ Event
    /\ last' = NoEvent(name)
    /\ oldPosWrites' = << >>
    /\ UNCHANGED <<sphere, oldSpherePos, sphereVelocity, isDraggingSphere, controlsEnabled,
                   lastWaterInteractionPoint, accumulatedWaveTime>>

\* setPaused(paused)
SetPaused ==
    /\ Setter("setPaused")
    /\ \E paused \in BOOLEAN : isPaused' = paused
    /\ waterSim' = NewLog(waterSim)
    /\ UNCHANGED <<gravityEnabled, windStrength, interactionStrength, waveSpeed>>

\* setGravity(enabled)
SetGravity ==
    /\ Setter("setGravity")
    /\ \E enabled \in BOOLEAN : gravityEnabled' = enabled
    /\ waterSim' = NewLog(waterSim)
    /\ UNCHANGED <<isPaused, windStrength, interactionStrength, waveSpeed>>

\* WaterEngine.setDamping(v)
SetEngineDamping ==
    /\ Setter("setDamping")
    /\ \E v \in Dampings : waterSim' = SetDamping(NewLog(waterSim), v)
    /\ UNCHANGED <<isPaused, gravityEnabled, windStrength, interactionStrength, waveSpeed>>

\* setWindStrength(v)
SetWindStrength ==
    /\ Setter("setWindStrength")
    /\ \E v \in WindStrengths : windStrength' = v
    /\ waterSim' = NewLog(waterSim)
    /\ UNCHANGED <<isPaused, gravityEnabled, interactionStrength, waveSpeed>>

\* setInteractionStrength(v)
SetInteractionStrength ==
    /\ Setter("setInteractionStrength")
    /\ \E v \in InteractionStrengths : interactionStrength' = v
    /\ waterSim' = NewLog(waterSim)
    /\ UNCHANGED <<isPaused, gravityEnabled, windStrength, waveSpeed>>

\* setWaveSpeed(v)
SetWaveSpeed ==
    /\ Setter("setWaveSpeed")
    /\ \E v \in WaveSpeeds : waveSpeed' = v
    /\ waterSim' = NewLog(waterSim)
    /\ UNCHANGED <<isPaused, gravityEnabled, windStrength, interactionStrength>>

\* dispose() without cancelAnimationFrame(this.animFrameId)
DisposeWithoutCancel ==
    /\ ~disposed
    /\ disposed' = TRUE
    /\ waterSim' = NewLog(waterSim)
    /\ last' = NoEvent("dispose")
    /\ oldPosWrites' = << >>
    /\ UNCHANGED <<sphere, oldSpherePos, sphereVelocity, isDraggingSphere,
                   controlsEnabled, lastWaterInteractionPoint, isPaused, gravityEnabled,
                   windStrength, interactionStrength, waveSpeed, accumulatedWaveTime,
                   animFrameId, pendingFrames, texture, frameSpherePos, nFrames, nEvents,
                   component>>

\* dispose(): cancel the pending frame, remove the listeners
Dispose ==
    /\ ~disposed
    /\ disposed' = TRUE
    /\ pendingFrames' = pendingFrames \ {animFrameId}
    /\ waterSim' = NewLog(waterSim)
    /\ last' = NoEvent("dispose")
    /\ oldPosWrites' = << >>
    /\ UNCHANGED <<sphere, oldSpherePos, sphereVelocity, isDraggingSphere,
                   controlsEnabled, lastWaterInteractionPoint, isPaused, gravityEnabled,
                   windStrength, interactionStrength, waveSpeed, accumulatedWaveTime,
                   animFrameId, texture, frameSpherePos, nFrames, nEvents, component>>

Next ==
    \/ Animate
    \/ OnPointerDown
    \/ OnPointerMove
    \/ OnPointerUp
    \/ OnPointerLeave
    \/ SetPaused
    \/ SetGravity
    \/ SetEngineDamping
    \/ SetWindStrength
    \/ SetInteractionStrength
    \/ SetWaveSpeed
    \/ Dispose

Spec == Init /\ [][Next]_vars

\* ------------------------------------------------ the loop under the host
\* The host calls a requested frame callback at the next repaint: a tick is
\* due while a callback is pending, and taking it is the step that counts a
\* frame.  Animate is the only action that counts one and it is enabled
\* exactly when a tick is due, so under Next this is the step Animate.
Repaint == nFrames < MaxFrames /\ pendingFrames # {} /\ nFrames' = nFrames + 1

\* The host does not leave a requested callback uncalled for ever: weak
\* fairness of the frame callback.
SpecLoop == Init /\ [][Next]_vars /\ WF_nFrames(Repaint)

\* ------------------------------------------------- the engine in a drag
\* new WaterEngine(container), then a pointer-down on the sphere: the state
\* onPointerDown leaves when its ray hits.  Frames and events are counted
\* from there.
InitDragging ==
    /\ \E f \in {FirstFrame} :
         /\ waterSim = NewLog(f.waterSim)
         /\ sphere = f.sphere
         /\ oldSpherePos = f.oldSpherePos
         /\ sphereVelocity = f.sphereVelocity
         /\ accumulatedWaveTime = f.accumulatedWaveTime
         /\ texture = f.texture
         /\ frameSpherePos = <<Constructed.sphere, f.sphere>>
    /\ oldPosWrites = << >>
    /\ isDraggingSphere = TRUE
    /\ controlsEnabled = FALSE
    /\ lastWaterInteractionPoint = Null
    /\ isPaused = FALSE
    /\ gravityEnabled = TRUE
    /\ windStrength = Constructed.windStrength
    /\ interactionStrength = Constructed.interactionStrength
    /\ waveSpeed = Constructed.waveSpeed
    /\ animFrameId = 1
    /\ pendingFrames = {1}
    /\ disposed = FALSE
    /\ last = NoEvent("onPointerDown")
    /\ nFrames = 0
    /\ nEvents = 0
    /\ component = Unrendered

SpecDrag == InitDragging /\ [][Next]_vars

\* ------------------------------------------- GPGPUWater through its API
\* Centres of addDrop: over the cell (1, 1), just past the edge u = 1, far
\* past it (the UV (1.5, 0.5)).
DropCentres == {Vec2(3750, 3750), Vec2(10100, 6250), Vec2(15000, 5000)}
\* Radii of addDrop: the click radius 0.03, and 0.2
DropRadii == {300, 2000}
DropStrengths == {3000}
\* Centres of moveSphere (z negated, as animate passes them): where the
\* constructor puts the sphere, and afloat at the far side.
SphereCentres == {Vec3(-3000, -1000, -3000), Vec3(2500, 0, 2500)}

\* What a GPGPUWater call leaves alone: every field of the engine, and the wrapper
EngineFields ==
    <<sphere, oldSpherePos, sphereVelocity, isDraggingSphere, controlsEnabled,
      lastWaterInteractionPoint, isPaused, gravityEnabled, windStrength,
      interactionStrength, waveSpeed, accumulatedWaveTime, animFrameId, pendingFrames,
      disposed, texture, oldPosWrites, frameSpherePos, nFrames, nEvents, component>>

\* new GPGPUWater(renderer, size), before any pass; the engine's fields as constructed
InitGPGPU ==
    /\ waterSim = NewGPGPUWater
    /\ sphere = Constructed.sphere
    /\ oldSpherePos = Constructed.oldSpherePos
    /\ sphereVelocity = Constructed.sphereVelocity
    /\ isDraggingSphere = FALSE
    /\ controlsEnabled = TRUE
    /\ lastWaterInteractionPoint = Null
    /\ isPaused = FALSE
    /\ gravityEnabled = TRUE
    /\ windStrength = Constructed.windStrength
    /\ interactionStrength = Constructed.interactionStrength
    /\ waveSpeed = Constructed.waveSpeed
    /\ accumulatedWaveTime = 0
    /\ animFrameId = 0
    /\ pendingFrames = {}
    /\ disposed = FALSE
    /\ texture = NullTexture
    /\ last = NoEvent("constructor")
    /\ oldPosWrites = << >>
    /\ frameSpherePos = <<Constructed.sphere, Constructed.sphere>>
    /\ nFrames = 0
    /\ nEvents = 0
    /\ component = Unrendered

\* A pass is issued through the API.
Call(name) ==
    /\ Len(waterSim.log) < MaxCalls
    /\ last' = NoEvent(name)
    /\ UNCHANGED EngineFields

CallAddDrop ==
    /\ Call("addDrop")
    /\ \E centre \in DropCentres, radius \in DropRadii, strength \in DropStrengths :
         waterSim' = AddDrop(waterSim, centre.x, centre.y, radius, strength)

CallMoveSphere ==
    /\ Call("moveSphere")
    /\ \E oldCenter \in SphereCentres, newCenter \in SphereCentres :
         waterSim' = MoveSphere(waterSim, oldCenter, newCenter, sphereRadius)

CallStep ==
    /\ Call("step")
    /\ waterSim' = Step(waterSim)

CallUpdateNormals ==
    /\ Call("updateNormals")
    /\ waterSim' = UpdateNormals(waterSim)

CallSetDamping ==
    /\ \E damping \in Dampings : waterSim' = SetDamping(waterSim, damping)
    /\ last' = NoEvent("setDamping")
    /\ UNCHANGED EngineFields

NextGPGPU ==
    \/ CallAddDrop
    \/ CallMoveSphere
    \/ CallStep
    \/ CallUpdateNormals
    \/ CallSetDamping

SpecGPGPU == InitGPGPU /\ [][NextGPGPU]_vars

\* ------------------------------------- step() repeated on a disturbed grid
\* Damping factors in [0, 1): none, a half, and the 0.995 of the constructor
StepDampings == Dampings \cup {DefaultDamping}

\* A GPGPUWater after one disturbance of the grid at rest: a drop, or the
\* sphere moved from one place to another
Disturbances ==
    {AddDrop(NewGPGPUWater, centre.x, centre.y, radius, strength) :
         centre \in DropCentres, radius \in DropRadii, strength \in DropStrengths}
    \cup {MoveSphere(NewGPGPUWater, oldCenter, newCenter, sphereRadius) :
              oldCenter \in SphereCentres, newCenter \in SphereCentres}

\* new GPGPUWater, one disturbance, setDamping(damping)
InitStep ==
    /\ \E w \in Disturbances, damping \in StepDampings : waterSim = SetDamping(w, damping)
    /\ sphere = Constructed.sphere
    /\ oldSpherePos = Constructed.oldSpherePos
    /\ sphereVelocity = Constructed.sphereVelocity
    /\ isDraggingSphere = FALSE
    /\ controlsEnabled = TRUE
    /\ lastWaterInteractionPoint = Null
    /\ isPaused = FALSE
    /\ gravityEnabled = TRUE
    /\ windStrength = Constructed.windStrength
    /\ interactionStrength = Constructed.interactionStrength
    /\ waveSpeed = Constructed.waveSpeed
    /\ accumulatedWaveTime = 0
    /\ animFrameId = 0
    /\ pendingFrames = {}
    /\ disposed = FALSE
    /\ texture = NullTexture
    /\ last = NoEvent("constructor")
    /\ oldPosWrites = << >>
    /\ frameSpherePos = <<Constructed.sphere, Constructed.sphere>>
    /\ nFrames = 0
    /\ nEvents = 0
    /\ component = Unrendered

\* step(), again
RepeatStep ==
    /\ Len(waterSim.log) < MaxSteps + 1
    /\ waterSim' = Step(waterSim)
    /\ last' = NoEvent("step")
    /\ UNCHANGED EngineFields

NextStep == RepeatStep

SpecStep == InitStep /\ [][NextStep]_vars

\* ------------------------------------------- the React wrapper WebGLWater
\* The objects a parent may pass as the sceneApiRef prop
RefObjects == {1, 2}
\* simDamping: 0.5, and the 0.995 the engine is constructed with
SimDampings == {500, DefaultDamping}

\* The props of WebGLWater that reach the simulation, and sceneApiRef.  Each
\* setting is as the engine constructs it or not; the settings move in two
\* groups (paused, damping and interaction strength; gravity, wind and wave
\* speed), so a render changes none, either or both of the groups.
Props ==
    {p \in [isPaused : BOOLEAN, gravityEnabled : BOOLEAN, simDamping : SimDampings,
             simWind : WindStrengths \cup {Constructed.windStrength},
             interactionStrength :
                 InteractionStrengths \cup {Constructed.interactionStrength},
             waveSpeed : WaveSpeeds \cup {Constructed.waveSpeed},
             sceneApiRef : RefObjects \cup {NoSceneApi}] :
        /\ p.isPaused = (p.simDamping # DefaultDamping)
        /\ p.isPaused = (p.interactionStrength # Constructed.interactionStrength)
        /\ p.gravityEnabled = (p.simWind = Constructed.windStrength)
        /\ p.gravityEnabled = (p.waveSpeed = Constructed.waveSpeed)}

\* The useEffect hooks that sync a prop to the engine, named by their dependency
Effects ==
    {"isPaused", "gravityEnabled", "simDamping", "simWind", "interactionStrength",
     "waveSpeed"}

\* new WaterEngine(container): the settable fields as constructed; disposals
\* counts its dispose() calls, tuned tells a setter was called through the API
NewWaterEngine ==
    [isPaused |-> FALSE, gravityEnabled |-> Constructed.gravityEnabled,
     damping |-> NewGPGPUWater.updateMat.u_damping,
     windStrength |-> Constructed.windStrength,
     interactionStrength |-> Constructed.interactionStrength,
     waveSpeed |-> Constructed.waveSpeed, disposals |-> 0, tuned |-> FALSE]

\* The engine after the effects named in run have called its setters with the
\* props p: setPaused, setGravity, setDamping, setWindStrength,
\* setInteractionStrength, setWaveSpeed
AfterEffects(engine, p, run) ==
    [engine EXCEPT
       !.isPaused = IF "isPaused" \in run THEN p.isPaused ELSE @,
       !.gravityEnabled = IF "gravityEnabled" \in run THEN p.gravityEnabled ELSE @,
       !.damping = IF "simDamping" \in run THEN p.simDamping ELSE @,
       !.windStrength = IF "simWind" \in run THEN p.simWind ELSE @,
       !.interactionStrength =
           IF "interactionStrength" \in run THEN p.interactionStrength ELSE @,
       !.waveSpeed = IF "waveSpeed" \in run THEN p.waveSpeed ELSE @]

\* The effects whose dependency differs between two renders
ChangedDeps(p, q) == {d \in Effects : p[d] # q[d]}

\* useLayoutEffect, the effect (mountRef.current is the rendered div): a new
\* engine, engineRef.current = engine, the API into props.sceneApiRef.current;
\* the cleanup it returns closes over this engine and these props.
LayoutEffect(c, p) ==
    LET engine == Len(c.engines) + 1
    IN  [c EXCEPT !.engines = Append(@, NewWaterEngine),
                  !.engineRef = engine,
                  !.current = IF p.sceneApiRef # NoSceneApi
                              THEN [@ EXCEPT ![p.sceneApiRef] = engine]
                              ELSE @,
                  !.cleanup = [engine |-> engine, sceneApiRef |-> p.sceneApiRef]]

\* The cleanup without engine.dispose()
LayoutCleanupWithoutDispose(c) ==
    [c EXCEPT !.current = IF c.cleanup.sceneApiRef # NoSceneApi
                          THEN [@ EXCEPT ![c.cleanup.sceneApiRef] = NoEngine]
                          ELSE @]

\* useLayoutEffect, the cleanup: engine.dispose();
\* if (props.sceneApiRef) props.sceneApiRef.current = null
LayoutCleanup(c) ==
    [c EXCEPT !.engines[c.cleanup.engine].disposals = @ + 1,
              !.current = IF c.cleanup.sceneApiRef # NoSceneApi
                          THEN [@ EXCEPT ![c.cleanup.sceneApiRef] = NoEngine]
                          ELSE @]

\* The variables of the engine model: the wrapper's engines are those of
\* component.engines
EngineVars ==
    <<waterSim, sphere, oldSpherePos, sphereVelocity, isDraggingSphere, controlsEnabled,
      lastWaterInteractionPoint, isPaused, gravityEnabled, windStrength,
      interactionStrength, waveSpeed, accumulatedWaveTime, animFrameId, pendingFrames,
      disposed, texture, last, oldPosWrites, frameSpherePos, nFrames, nEvents>>

\* Before <WebGLWater ... /> is rendered
InitWebGLWater == InitGPGPU

\* The first render is committed: the layout effect runs and every useEffect
\* is scheduled.
Mount ==
    /\ component.phase = "unrendered"
    /\ \E p \in Props :
         component' = [LayoutEffect(component, p) EXCEPT
                          !.phase = "mounted", !.props = p, !.pending = Effects]
    /\ UNCHANGED EngineVars

\* The scheduled useEffect callbacks run: engineRef.current?.setX(props.x)
RunEffects ==
    /\ component.phase = "mounted"
    /\ component.pending # {}
    /\ component' =
         [component EXCEPT
            !.engines = IF component.engineRef = NoEngine THEN @
                        ELSE [@ EXCEPT ![component.engineRef] =
                                 AfterEffects(@, component.props, component.pending)],
            !.pending = {}]
    /\ UNCHANGED EngineVars

\* A render with other props is committed (React has run the effects of the
\* render before): if sceneApiRef changed, the layout effect's cleanup and
\* then the effect run; the useEffect hooks whose dependency changed are
\* scheduled.
Update ==
    /\ component.phase = "mounted"
    /\ component.pending = {}
    /\ component.renders < MaxRenders
    /\ \E p \in Props \ {component.props} :
         LET c == IF p.sceneApiRef # component.props.sceneApiRef
                  THEN LayoutEffect(LayoutCleanup(component), p)
                  ELSE component
         IN  component' = [c EXCEPT !.props = p,
                                    !.pending = ChangedDeps(component.props, p),
                                    !.renders = @ + 1]
    /\ UNCHANGED EngineVars

\* The component is removed (React has run the effects of the render
\* before): the layout effect's cleanup runs.
Unmount ==
    /\ component.phase = "mounted"
    /\ component.pending = {}
    /\ component' = [LayoutCleanup(component) EXCEPT !.phase = "unmounted"]
    /\ UNCHANGED EngineVars

\* The parent calls a setter of the API it finds in a sceneApiRef.current:
\* setDamping, setWindStrength, setInteractionStrength, setWaveSpeed of the
\* engine the API closes over.
ApiCall ==
    /\ component.phase = "mounted"
    /\ component.calls < MaxApiCalls
    /\ \E r \in RefObjects :
         /\ component.current[r] # NoEngine
         /\ \E p \in Props, d \in Effects \ {"isPaused", "gravityEnabled"} :
              component' =
                  [component EXCEPT
                     !.engines[component.current[r]] =
                         [AfterEffects(@, p, {d}) EXCEPT !.tuned = TRUE],
                     !.calls = @ + 1]
    /\ UNCHANGED EngineVars

NextWebGLWater ==
    \/ Mount
    \/ RunEffects
    \/ Update
    \/ Unmount
    \/ ApiCall

SpecWebGLWater == InitWebGLWater /\ [][NextWebGLWater]_vars

\* ---------------------------------------------------------------- claims
\* The pass that completed last, and how many passes of a kind the log holds
LastPass == Log[Len(Log)]
Count(pass) == Cardinality({i \in 1 .. Len(Log) : Log[i].pass = pass})
\* The grid the latest pass sampled: the buffer that is now targets.write
Before == waterSim.buf[waterSim.write]

\* C1: every pass samples the buffer that is read when it begins, draws into
\* the one that is write, and the two are swapped when it completes; read and
\* write are always distinct buffers and getTexture() is the target of the
\* latest pass.
C1_DoubleBuffer ==
    /\ waterSim.read \in Buffers
    /\ waterSim.write \in Buffers
    /\ waterSim.read # waterSim.write
    /\ \A i \in 1 .. Len(Log) :
         /\ Log[i].uniforms.u_texture = Log[i].read0
         /\ Log[i].dst = Log[i].write0
         /\ Log[i].read0 # Log[i].write0
         /\ i < Len(Log) => /\ Log[i + 1].read0 = Log[i].write0
                            /\ Log[i + 1].write0 = Log[i].read0
         /\ i = Len(Log) => /\ waterSim.read = Log[i].write0
                            /\ waterSim.write = Log[i].read0
                            /\ GetTexture(waterSim) = Log[i].dst

\* C1: three passes of three kinds have completed
C1_Witness ==
    /\ Len(Log) = 3
    /\ Log[1].pass = "drop"
    /\ Log[2].pass = "sphere"
    /\ Log[3].pass = "update"
    /\ GetTexture(waterSim) = Log[3].dst
    /\ Grid # RestGrid

\* C4: an addDrop whose centre lies outside [0, 1] x [0, 1] leaves every cell
\* of the grid as it was.
C4_OutOfBoundsDropIgnored ==
    (/\ Len(Log) > 0
     /\ LastPass.pass = "drop"
     /\ ~InUnitSquare(LastPass.uniforms.u_center))
        => Grid = Before

\* C5: moveSphere(P, P, r) leaves the height of every cell exactly as it was.
C5_NoOpMoveKeepsHeights ==
    (/\ Len(Log) > 0
     /\ LastPass.pass = "sphere"
     /\ LastPass.uniforms.u_oldCenter = LastPass.uniforms.u_newCenter)
        => \A c \in Cells : Grid[c].r = Before[c].r

\* C6: from the grid at rest, with no addDrop and no moveSphere, any number
\* of step() calls under any damping leaves every cell at height 0 and
\* velocity 0.
C6_RestInvariant ==
    (\A i \in 1 .. Len(Log) : Log[i].pass = "update")
        => \A b \in Buffers, c \in Cells : waterSim.buf[b][c].r = 0 /\ waterSim.buf[b][c].g = 0

\* C6: step() has run under two different dampings and nothing else has
C6_Witness ==
    /\ Len(Log) >= 2
    /\ \A i \in 1 .. Len(Log) : Log[i].pass = "update"
    /\ Log[1].uniforms.u_damping # Log[2].uniforms.u_damping
    /\ \A c \in Cells : Grid[c].r = 0 /\ Grid[c].g = 0

\* C7: after a step() with damping 0 every cell's velocity is exactly 0 and
\* its height is the height it had before the step (for finite values).
C7_ZeroDamping ==
    (/\ Len(Log) > 0
     /\ LastPass.pass = "update"
     /\ LastPass.uniforms.u_damping = 0)
        => \A c \in Cells : Grid[c].g = 0 /\ Grid[c].r = Before[c].r

\* C7: a step() with damping 0 has run on a grid with a moving cell whose
\* neighbour stands at another height
C7_Witness ==
    /\ Len(Log) > 0
    /\ LastPass.pass = "update"
    /\ LastPass.uniforms.u_damping = 0
    /\ \E c \in Cells :
         /\ Before[c].g # 0
         /\ Texture2D(Before, c, 1, 0).r # Before[c].r
         /\ Grid[c].g = 0

\* The latest handler was a frame
AfterFrame == last.handler = "animate"

\* C2: in a frame every addDrop and the moveSphere precede step(), and
\* updateNormals() follows step() with no pass between them or after it; the
\* texture handed on is the output of updateNormals on the stepped state.
C2_PassOrder ==
    (AfterFrame /\ Len(Log) > 0)
        => /\ Len(Log) >= 2
           /\ LastPass.pass = "normal"
           /\ Log[Len(Log) - 1].pass = "update"
           /\ \A i \in 1 .. Len(Log) - 2 : Log[i].pass \in {"drop", "sphere"}
           /\ LastPass.uniforms.u_texture = Log[Len(Log) - 1].dst
           /\ texture = LastPass.dst
           /\ texture = GetTexture(waterSim)

\* C2: a later frame has issued its wind drops, a displacement, step and normals
C2_Witness ==
    /\ AfterFrame
    /\ nFrames >= 1
    /\ Len(Log) = 5
    /\ Log[1].pass = "drop"
    /\ Log[3].pass = "sphere"
    /\ LastPass.pass = "normal"

\* C3 as stated: in every tick of animate step() runs exactly once and
\* updateNormals() runs exactly once.
C3_OncePerTick == AfterFrame => Count("update") = 1 /\ Count("normal") = 1

\* C3: in every tick of animate that finds the engine running, step() runs
\* exactly once and updateNormals() exactly once; a tick that finds it
\* paused runs neither.
C3_OncePerRunningTick ==
    AfterFrame => IF isPaused
                  THEN Count("update") = 0 /\ Count("normal") = 0
                  ELSE Count("update") = 1 /\ Count("normal") = 1

\* C3: a later tick has run with the engine running
C3_Witness ==
    /\ AfterFrame
    /\ nFrames >= 1
    /\ ~isPaused
    /\ Count("update") = 1
    /\ Count("normal") = 1

\* A pointer move in the Disturbing state to a valid UV: the trail from
\* last.from to last.uv
AfterTrail ==
    /\ last.handler = "onPointerMove"
    /\ last.from # Null
    /\ last.uv # Null
    /\ InUnitSquare(last.uv)

\* n = ceil(sqrt(d2) / TrailSpacing)
IsCeil(n, d2) ==
    /\ (n * TrailSpacing) * (n * TrailSpacing) >= d2
    /\ n = 0 \/ ((n - 1) * TrailSpacing) * ((n - 1) * TrailSpacing) < d2

\* The passes of the trail are addDrops of the trail radius, the i-th (from
\* 0) centred at P + (i / n) (Q - P), to the nearest lattice point
EquallySpaced ==
    \A i \in 1 .. Len(Log) :
        /\ Log[i].pass = "drop"
        /\ Log[i].uniforms.u_radius = TrailRadius
        /\ 2 * Abs(Len(Log) * (Log[i].uniforms.u_center.x - last.from.x)
                   - (i - 1) * (last.uv.x - last.from.x)) <= Len(Log)
        /\ 2 * Abs(Len(Log) * (Log[i].uniforms.u_center.y - last.from.y)
                   - (i - 1) * (last.uv.y - last.from.y)) <= Len(Log)

\* C8 as stated: the trail from P to Q is exactly ceil(|Q - P| / 0.015)
\* injections, equally spaced from P toward Q, each of radius 0.02.
C8_TrailCeil ==
    AfterTrail => IsCeil(Len(Log), Dist2(last.from, last.uv)) /\ EquallySpaced

\* C8: the trail from P to Q is exactly max(1, ceil(|Q - P| / 0.015))
\* injections, the i-th (i = 0 .. n - 1) at P + (i / n) (Q - P), each of
\* radius 0.02.
C8_TrailAtLeastOne ==
    AfterTrail => /\ IF last.from = last.uv
                     THEN Len(Log) = 1
                     ELSE IsCeil(Len(Log), Dist2(last.from, last.uv))
                  /\ EquallySpaced

\* C8: a trail of three injections (|Q - P| = 0.032, between 2 and 3 spacings)
C8_Witness ==
    /\ AfterTrail
    /\ last.from # last.uv
    /\ Len(Log) = 3
    /\ Log[1].uniforms.u_center = last.from
    /\ Log[3].uniforms.u_center # last.uv

\* The frame issued a Displacement pass
Displacing == \E i \in 1 .. Len(Log) : Log[i].pass = "sphere"

\* C9: after a frame that issued a Displacement pass, oldSpherePos is the
\* sphere's position, the new centre of that pass.
C9_OldPosIsPosition ==
    (AfterFrame /\ Displacing)
        => /\ oldSpherePos = sphere
           /\ \A i \in 1 .. Len(Log) :
                Log[i].pass = "sphere"
                    => Log[i].uniforms.u_newCenter = Vec3(sphere.x, sphere.y, -sphere.z)

\* C9: a later frame has displaced the water for a sphere that moved
C9_Witness ==
    /\ AfterFrame
    /\ nFrames >= 1
    /\ Displacing
    /\ oldSpherePos = sphere
    /\ sphere # Constructed.sphere

\* C10 as stated: every frame updates oldSpherePos exactly once, after its
\* Displacement pass.
C10_OncePerFrame ==
    AfterFrame => /\ Len(oldPosWrites) = 1
                  /\ oldPosWrites[1] \in 1 .. Len(Log)
                  /\ Log[oldPosWrites[1]].pass = "sphere"

\* C10: a frame updates oldSpherePos at most once: exactly when it issues a
\* Displacement pass, and directly after that pass; a frame without one (the
\* sphere moved 0.001 or less, or the engine is paused) does not update it.
C10_OncePerDisplacement ==
    AfterFrame => IF Displacing
                  THEN /\ Len(oldPosWrites) = 1
                       /\ oldPosWrites[1] \in 1 .. Len(Log)
                       /\ Log[oldPosWrites[1]].pass = "sphere"
                       /\ Count("sphere") = 1
                  ELSE oldPosWrites = << >>

\* C10: a running frame has left oldSpherePos alone, the sphere being held
C10_Witness ==
    /\ AfterFrame
    /\ nFrames >= 1
    /\ ~isPaused
    /\ isDraggingSphere
    /\ ~Displacing
    /\ oldPosWrites = << >>
    /\ Count("update") = 1

\* A pointer-down whose ray missed the sphere, with the UV it mapped to
AfterDown == last.handler = "onPointerDown" /\ last.uv # Null
\* ... and the UV is on the water
AfterClick == AfterDown /\ InUnitSquare(last.uv)

\* C11: a pointer-down that misses the sphere and maps to a valid UV issues
\* exactly one injection, centred at that UV, of radius 0.03 and of the
\* configured interaction strength.
C11_ClickInjectsOnce ==
    AfterClick => /\ Len(Log) = 1
                  /\ LastPass.pass = "drop"
                  /\ LastPass.uniforms.u_center = last.uv
                  /\ LastPass.uniforms.u_radius = ClickRadius
                  /\ LastPass.uniforms.u_strength = interactionStrength

\* C11: a click on the water after setInteractionStrength changed the strength
C11_Witness ==
    /\ AfterClick
    /\ Len(Log) = 1
    /\ interactionStrength # Constructed.interactionStrength
    /\ LastPass.uniforms.u_strength = interactionStrength
    /\ Grid # Before

\* C12: after a pointer-down that misses the sphere and maps to a valid UV,
\* lastWaterInteractionPoint is not null.
C12_ClickStartsSession == AfterClick => lastWaterInteractionPoint # Null

\* C13: lastWaterInteractionPoint is null after every pointer-up, every
\* pointer-leave, and every pointer-down or pointer-move whose cursor maps
\* outside the unit square.
C13_SessionReset ==
    /\ last.handler \in {"onPointerUp", "onPointerLeave"} => lastWaterInteractionPoint = Null
    /\ (/\ last.handler \in {"onPointerDown", "onPointerMove"}
        /\ last.uv # Null
        /\ ~InUnitSquare(last.uv)) => lastWaterInteractionPoint = Null

\* C14: a pointer-down or pointer-move issues injections only when the sphere
\* is not being dragged, the ray misses the sphere and the UV is valid.
C14_InjectionGuard ==
    (/\ last.handler \in {"onPointerDown", "onPointerMove"}
     /\ Len(Log) > 0)
        => /\ ~isDraggingSphere
           /\ last.uv # Null
           /\ InUnitSquare(last.uv)

\* C15: after a pointer-leave the sphere is not being dragged.
C15_LeaveEndsDrag == last.handler = "onPointerLeave" => ~isDraggingSphere

\* C16: whenever a drag of the sphere ends, the sphere's velocity is zero.
C16_DragEndsAtRest ==
    [][(isDraggingSphere /\ ~isDraggingSphere') => sphereVelocity' = Vec3(0, 0, 0)]_vars

\* The walls and the floor of the pool, for the sphere's centre
PoolLimit == poolSize \div 2 - sphereRadius
FloorY == -poolHeight + sphereRadius

FrameAndPointerHandlers ==
    {"animate", "onPointerDown", "onPointerMove", "onPointerUp", "onPointerLeave"}

\* C19: until dispose() exactly the latest requested frame is pending; once
\* dispose() has run none is, and no frame and no pointer handler runs any
\* more: no tick is counted and no buffer is drawn into.
C19_Teardown ==
    /\ [](pendingFrames = IF disposed THEN {} ELSE {animFrameId})
    /\ [][disposed => /\ nFrames' = nFrames
                      /\ waterSim'.buf = waterSim.buf
                      /\ last'.handler \notin FrameAndPointerHandlers]_vars

\* C19: dispose() has run after a frame, with frames and events still to come
C19_Witness ==
    /\ disposed
    /\ pendingFrames = {}
    /\ nFrames >= 1
    /\ nFrames < MaxFrames
    /\ nEvents < MaxEvents

\* Every moveSphere of the log comes before every step()
DisplacementBeforeStep ==
    \A i, j \in 1 .. Len(Log) : (Log[i].pass = "sphere" /\ Log[j].pass = "update") => i < j

RECURSIVE MaxOver(_, _)
\* The largest |height| or |velocity| over the cells S of grid G
MaxOver(G, S) ==
    IF S = {} THEN 0
    ELSE LET c == CHOOSE x \in S : TRUE
         IN  Max(Max(Abs(G[c].r), Abs(G[c].g)), MaxOver(G, S \ {c}))
Amplitude(G) == MaxOver(G, Cells)

\* The grid the first pass of the log left: the disturbance that the steps
\* started from
Disturbed(e) ==
    IF e.pass = "drop"
    THEN AddDrop(NewGPGPUWater, e.uniforms.u_center.x, e.uniforms.u_center.y,
                 e.uniforms.u_radius, e.uniforms.u_strength)
    ELSE MoveSphere(NewGPGPUWater, e.uniforms.u_oldCenter, e.uniforms.u_newCenter,
                    e.uniforms.u_radius)
InitialAmplitude == Amplitude(Disturbed(Log[1]).buf[Log[1].dst])

FrameStep == nFrames' = nFrames + 1

\* C21 as stated: any frame during a drag leaves the sphere where it is and
\* ends with the velocity (0, 0, 0).
C21_DragFrame ==
    [][(FrameStep /\ isDraggingSphere) =>
           (sphere' = sphere /\ sphereVelocity' = Vec3(0, 0, 0))]_vars

\* C21: a frame that finds the engine running and the sphere dragged leaves
\* the sphere where it is and ends with the velocity (0, 0, 0); a frame that
\* finds the engine paused leaves position and velocity as they were.
C21_RunningDragFrame ==
    [][(FrameStep /\ isDraggingSphere) =>
           /\ sphere' = sphere
           /\ sphereVelocity' = IF isPaused THEN sphereVelocity ELSE Vec3(0, 0, 0)]_vars

\* C21: a running frame has ended in a drag that moved the sphere since the
\* tick before
C21_Witness ==
    /\ AfterFrame
    /\ nFrames >= 1
    /\ isDraggingSphere
    /\ ~isPaused
    /\ frameSpherePos[1] # frameSpherePos[2]
    /\ sphere = frameSpherePos[2]
    /\ sphereVelocity = Vec3(0, 0, 0)

\* The injections of the latest handler are the two of the wind: the first
\* two passes, of strengths windStrength and -0.7 windStrength, of radii 0.05
\* and 0.08, centred inside the unit square.
WindPair ==
    /\ Count("drop") = 2
    /\ Len(Log) >= 2
    /\ Log[1].pass = "drop"
    /\ Log[2].pass = "drop"
    /\ Log[1].uniforms.u_radius = WindRadius1
    /\ Log[2].uniforms.u_radius = WindRadius2
    /\ Log[1].uniforms.u_strength = windStrength
    /\ 10 * Log[2].uniforms.u_strength = (-7) * windStrength
    /\ InUnitSquare(Log[1].uniforms.u_center)
    /\ InUnitSquare(Log[2].uniforms.u_center)

\* C22 as stated: every frame issues exactly the two wind injections.
C22_WindEveryFrame == AfterFrame => WindPair

\* C22: every frame that finds the engine running issues exactly the two wind
\* injections, whatever the pointer and drag state; a frame that finds the
\* engine paused issues none.
C22_WindEveryRunningFrame ==
    AfterFrame => IF isPaused THEN Count("drop") = 0 ELSE WindPair

\* C22: a running frame in a drag, with the constructed wind strength 0.0005
C22_Witness ==
    /\ AfterFrame
    /\ nFrames >= 1
    /\ ~isPaused
    /\ isDraggingSphere
    /\ windStrength = 50
    /\ WindPair
    /\ Log[2].uniforms.u_strength = -35
    /\ Log[1].uniforms.u_center # Log[2].uniforms.u_center

\* The channels of a texel: height, velocity, normalX, normalZ
Channels == {"r", "g", "b", "a"}

\* The channels the fragment shader of a pass assigns
Assigned(pass) ==
    CASE pass = "drop" -> {"r"}
      [] pass = "sphere" -> {"r"}
      [] pass = "update" -> {"r", "g"}
      [] pass = "normal" -> {"b", "a"}

\* The channels in which the grid the latest pass drew differs from the grid
\* it sampled
Changed == {ch \in Channels : \E c \in Cells : Grid[c][ch] # Before[c][ch]}

\* C23: addDrop and moveSphere change only the height of a texel, step only
\* height and velocity, updateNormals only normalX and normalZ; every other
\* channel of every texel passes through the pass unchanged.
C23_ChannelFrames == Len(Log) > 0 => Changed \subseteq Assigned(LastPass.pass)

\* C23: moveSphere has changed heights of a grid that held velocities
C23_Witness ==
    /\ Len(Log) = 3
    /\ Log[2].pass = "update"
    /\ LastPass.pass = "sphere"
    /\ \E c \in Cells : Before[c].g # 0
    /\ Changed = {"r"}

\* C24: while the sphere is dragged the orbit controls are disabled.
C24_DragDisablesControls == isDraggingSphere => ~controlsEnabled

\* C25: while the engine is paused, no frame and no pointer event runs a pass,
\* and the grid behind getTexture(), oldSpherePos and the accumulated wave
\* time stay as they are.
C25_PauseFreezes ==
    [][(isPaused /\ last'.handler \in FrameAndPointerHandlers) =>
           /\ Len(Log') = 0
           /\ Grid' = Grid
           /\ oldSpherePos' = oldSpherePos
           /\ accumulatedWaveTime' = accumulatedWaveTime]_vars

\* A position as moveSphere receives it from animate: (x, y, -z)
Mirrored(pos) == Vec3(pos.x, pos.y, -pos.z)

\* C26: a frame that finds the engine running ends with oldSpherePos within
\* 0.001 of the sphere; oldSpherePos changes only in a handler that displaces
\* the water, and every displacement runs from oldSpherePos as it was to
\* oldSpherePos as it is left, so the displacements applied add up to
\* oldSpherePos less the sphere's first position and fall short of the
\* sphere's whole displacement by at most 0.001.
C26_Deferred ==
    /\ []((AfterFrame /\ ~isPaused) => ~FartherThan(oldSpherePos, sphere, MoveEpsilon))
    /\ [][oldSpherePos' # oldSpherePos => Displacing']_vars
    /\ [][\A i \in 1 .. Len(Log') :
            Log'[i].pass = "sphere" =>
                /\ Log'[i].uniforms.u_oldCenter = Mirrored(oldSpherePos)
                /\ Log'[i].uniforms.u_newCenter = Mirrored(oldSpherePos')]_vars

\* C26: a running frame has left a move of the sphere of less than 0.001
\* without a displacement
C26_Witness ==
    /\ AfterFrame
    /\ nFrames >= 1
    /\ ~isPaused
    /\ ~Displacing
    /\ sphere # oldSpherePos
    /\ ~FartherThan(oldSpherePos, sphere, MoveEpsilon)

\* A pointer move over the water, not in a drag and off the sphere, that
\* found no remembered point
FirstMove(e) ==
    /\ e.handler = "onPointerMove"
    /\ e.uv # Null
    /\ InUnitSquare(e.uv)
    /\ e.from = Null

\* C27: a pointer move to a valid UV that finds lastWaterInteractionPoint null
\* issues no injection and leaves the buffers as they are; it only records
\* its UV as lastWaterInteractionPoint.
C27_FirstMoveRecordsOnly ==
    [][FirstMove(last') => /\ Len(Log') = 0
                           /\ waterSim'.buf = waterSim.buf
                           /\ lastWaterInteractionPoint' = last'.uv
                           /\ sphere' = sphere
                           /\ isDraggingSphere' = isDraggingSphere
                           /\ controlsEnabled' = controlsEnabled]_vars

\* C27: the first move after a reset of the session has recorded its UV
C27_Witness ==
    /\ FirstMove(last)
    /\ nEvents = 2
    /\ ~isDraggingSphere
    /\ lastWaterInteractionPoint = last.uv
    /\ Len(Log) = 0
    /\ Grid # RestGrid

\* The latest frame ran the pipeline: the two wind injections, one step(),
\* one updateNormals()
FullPipeline == WindPair /\ Count("update") = 1 /\ Count("normal") = 1

\* C28: until dispose() exactly one frame callback is pending; every tick,
\* paused or not, takes the pending callback and requests exactly one new
\* one; a tick that finds the engine not paused (so the first tick after
\* setPaused(false)) runs the full pipeline; and the loop does not stall: as
\* long as the engine is not disposed the next tick comes.
C28_LoopSurvivesPause ==
    /\ [](~disposed => Cardinality(pendingFrames) = 1)
    /\ [][FrameStep => /\ animFrameId' # animFrameId
                       /\ pendingFrames' = {animFrameId'}
                       /\ pendingFrames \cap pendingFrames' = {}]_vars
    /\ []((AfterFrame /\ ~isPaused) => FullPipeline)
    /\ \A k \in 0 .. MaxFrames - 1 :
         (~disposed /\ nFrames = k) ~> (disposed \/ nFrames = k + 1)

\* C28: a tick found the engine paused, setPaused(false) was called, and the
\* next tick has run the full pipeline (of the two ticks since construction
\* one advanced the wave time; the two events were the two setPaused calls)
C28_Witness ==
    /\ AfterFrame
    /\ nFrames = 2
    /\ nEvents = 2
    /\ ~isPaused
    /\ ~disposed
    /\ waveSpeed = Constructed.waveSpeed
    /\ accumulatedWaveTime \in Deltas
    /\ FullPipeline
    /\ pendingFrames = {animFrameId}
    /\ animFrameId = 3

\* The engines of the component that dispose() has not been called on
Live == {i \in 1 .. Len(component.engines) : component.engines[i].disposals = 0}

\* C29: at any time at most one engine of the component is not disposed and
\* no engine is disposed twice; once the component is unmounted every engine
\* it constructed has been disposed exactly once and the current of every
\* sceneApiRef it was given is null.
C29_Lifecycle ==
    /\ Cardinality(Live) <= 1
    /\ \A i \in 1 .. Len(component.engines) : component.engines[i].disposals <= 1
    /\ component.phase = "mounted" => Live = {component.engineRef}
    /\ component.phase = "unmounted" =>
           /\ \A i \in 1 .. Len(component.engines) : component.engines[i].disposals = 1
           /\ \A r \in RefObjects : component.current[r] = NoEngine

\* C29: the component was mounted with a sceneApiRef, rendered with another
\* and with yet another, and unmounted: three engines, all disposed
C29_Witness ==
    /\ component.phase = "unmounted"
    /\ Len(component.engines) = 3
    /\ component.props.sceneApiRef # NoSceneApi
    /\ component.cleanup.engine = 3
    /\ \A i \in 1 .. 3 : component.engines[i].disposals = 1
    /\ \A r \in RefObjects : component.current[r] = NoEngine

\* The engine's settings are those of the props
Synced(engine, p) ==
    /\ engine.isPaused = p.isPaused
    /\ engine.gravityEnabled = p.gravityEnabled
    /\ engine.damping = p.simDamping
    /\ engine.windStrength = p.simWind
    /\ engine.interactionStrength = p.interactionStrength
    /\ engine.waveSpeed = p.waveSpeed

\* C30: once the effects of a render have run, the settings of the live
\* engine, if no setter of it was called through the API, are those of the
\* latest props, also for an engine created because sceneApiRef changed.
C30_PropsSynced ==
    (/\ component.phase = "mounted"
     /\ component.pending = {}
     /\ ~component.engines[component.engineRef].tuned)
        => Synced(component.engines[component.engineRef], component.props)
====
